---- MODULE Spec2Model ----
(***************************************************************************)
(* Law of large numbers, Bernoulli simulation: the two Streamlit scripts   *)
(* law_large_numbers.py (seeded generator) and law_large_numbers3.py       *)
(* (generator seeded from OS entropy).                                     *)
(*                                                                         *)
(* Streamlit runs the whole script once per user interaction, so one       *)
(* action of the model is one interaction followed by the complete script  *)
(* run it triggers.  The state is the widget state that survives between   *)
(* script runs (p, seed, include_big_n) and what the last script run       *)
(* computed and put on the page (run, n_values, rng, successes, rows,      *)
(* view).                                                                  *)
(*                                                                         *)
(* Numbers.  p is held in hundredths (the slider's grid): p = 29 is 0.29.  *)
(* result and |result - p| are held as exact fractions [num, den] over the *)
(* denominator Scale * n, so that every product stays below 2^31; the      *)
(* rounding of the float64 operations is not modelled.                     *)
(***************************************************************************)
EXTENDS Integers, Sequences, FiniteSets, TLC

(* ---------------------------- bounds ----------------------------------- *)

\* A uniform variate of the generator is quantised to the levels 0..MaxLevel.
MaxLevel == 2

\* Entropy values (seeds of the bit generator) the OS may hand out: 0..MaxEntropy.
MaxEntropy == 80

\* Interactions counted after an observation (observer of SpecObs).
MaxBetween == 3

\* Slider positions the user moves to, in hundredths.
SliderStops == {0, 1, 29, 50, 71, 99, 100}

\* Values the user types into the seed field.
SeedChoices == {-1, 0, 42, 43}

(* ------------------------ program constants ---------------------------- *)

\* step=0.01: one slider step is 1/Scale.
Scale == 100
\* min_value=0.0, max_value=1.0, value=0.5 in hundredths.
p_min == 0
p_max == 100
p_default == 50
\* st.number_input(..., value=42, step=1)
seed_default == 42
\* [10_000_000] if include_big_n else []
big_n == 10000000

VARIABLES
    app,            \* which script the session runs: "seeded" | "unseeded"
    p,              \* slider value, hundredths
    seed,           \* number_input value (law_large_numbers.py only)
    include_big_n,  \* checkbox value
    run,            \* st.button's value in the last script run
    n_values,       \* the list built by the last script run
    rng,            \* the generator of the last script run, as it was left
    successes,      \* the values the loop's local `successes` took, in order
    rows,           \* the list `rows` of the last script run
    view,           \* what the last script run left on the page
    observed        \* observer of SpecObs: a run noted down earlier

vars == <<app, p, seed, include_big_n, run, n_values, rng, successes, rows, view,
          observed>>

(* --------------------------- arithmetic -------------------------------- *)

\* successes / n (true division), as a fraction over Scale * n.
Div(s, n) == [num |-> s * Scale, den |-> n * Scale]

\* x - p for a fraction x over Scale * n and p in hundredths.
Sub(x, q) == [num |-> x.num - q * (x.den \div Scale), den |-> x.den]

\* abs(x)
Abs(x) == [num |-> IF x.num < 0 THEN -x.num ELSE x.num, den |-> x.den]

(* ---------------------------- generator -------------------------------- *)

\* No generator: the script run did not reach np.random.default_rng.
NoRng == [seed |-> -1, pos |-> 0]

\* The ValueError np.random.default_rng raises ("expected non-negative integer").
ValueError == [seed |-> -1, pos |-> -1]

\* The k-th variate of the stream that entropy s seeds: a fixed function of s
\* and k, standing for PCG64's stream.  The first four variates are the four
\* low digits of s in base MaxLevel + 1; each later block of four is the block
\* before it with every variate moved up one level.
Variate(s, k) ==
    ((s \div ((MaxLevel + 1) ^ ((k - 1) % 4))) + ((k - 1) \div 4)) % (MaxLevel + 1)

\* Inversion for q <= 1/2: 0 when q = 0, else the u-th of MaxLevel+1 evenly
\* spaced values of the support 0..n (every value of 0..n has positive
\* probability when 0 < q < 1).
Inversion(n, q, u) == IF n = 0 \/ q = 0 THEN 0 ELSE (u * n) \div MaxLevel

\* rng.binomial(n=n, p=p) for the variate u: numpy draws for min(p, 1-p) and
\* mirrors the result when p > 1/2.
Binomial(n, q, u) ==
    IF 2 * q <= Scale THEN Inversion(n, q, u) ELSE n - Inversion(n, Scale - q, u)

\* law_large_numbers.py: rng = np.random.default_rng(int(seed)), that reuses a
\* generator left by the previous script run instead of creating one.
default_rng1_cached(s) ==
    IF s < 0 THEN ValueError
    ELSE IF rng.pos > 0 THEN rng ELSE [seed |-> s, pos |-> 0]

\* law_large_numbers.py: rng = np.random.default_rng(int(seed)).  A negative
\* seed is refused by numpy's SeedSequence.
default_rng1(s) == IF s < 0 THEN ValueError ELSE [seed |-> s, pos |-> 0]

\* law_large_numbers3.py: rng = np.random.default_rng(), seeded with the
\* entropy e the OS hands out.
default_rng3(e) == [seed |-> e, pos |-> 0]

(* ------------------------ law_large_numbers.py ------------------------- *)

\* n_values = [10, 50, 100, 1000] + ([10_000_000] if include_big_n else [])
NValues1(big) == <<10, 50, 100, 1000>> \o (IF big THEN <<big_n>> ELSE <<>>)

\* successes = rng.binomial(n=n, p=p) drawn with the slider's default p.
Draw1_default_p(g, i, n, q) == Binomial(n, p_default, Variate(g.seed, g.pos + i))

\* successes = rng.binomial(n=n, p=p): the i-th draw of generator g.
Draw1(g, i, n, q) == Binomial(n, q, Variate(g.seed, g.pos + i))

\* The loop body with result = successes // n.
Row1_floordiv(n, s, q) ==
    LET result == Div((s \div n) * n, n)
        abs_diff == Abs(Sub(result, q))
    IN  [n |-> n, result |-> result, abs_diff |-> abs_diff]

\* The loop body: result, abs_diff and the appended row.
Row1(n, s, q) ==
    LET result == Div(s, n)
        abs_diff == Abs(Sub(result, q))
    IN  [n |-> n, result |-> result, abs_diff |-> abs_diff]

\* The list `rows` the loop builds over n_values nv when the draws are succ.
Rows1(nv, succ, q) == [i \in 1..Len(nv) |-> Row1(nv[i], succ[i], q)]

\* One run of the script with the widget values (q, s, big) and the button
\* value pressed.
Script1(q, s, big, pressed) ==
    LET nv == NValues1(big) IN
    IF ~pressed
    THEN [n_values |-> nv, rng |-> NoRng, successes |-> <<>>, rows |-> <<>>,
          view |-> "info"]
    ELSE LET g == default_rng1(s) IN
         IF g = ValueError
         THEN [n_values |-> nv, rng |-> NoRng, successes |-> <<>>, rows |-> <<>>,
               view |-> "exception"]
         ELSE LET succ == [i \in 1..Len(nv) |-> Draw1(g, i, nv[i], q)] IN
              [n_values |-> nv,
               rng |-> [seed |-> g.seed, pos |-> g.pos + Len(nv)],
               successes |-> succ,
               rows |-> Rows1(nv, succ, q),
               view |-> "results"]

(* ------------------------ law_large_numbers3.py ------------------------ *)

\* n_values = [10, 50, 100, 1000] + ([10_000_000] if include_big_n else [])
NValues3(big) == <<10, 50, 100, 1000>> \o (IF big THEN <<big_n>> ELSE <<>>)

\* successes = rng.binomial(n=n, p=p): the i-th draw of generator g.
Draw3(g, i, n, q) == Binomial(n, q, Variate(g.seed, g.pos + i))

\* The loop body with abs_diff = result - p (no abs).
Row3_signed(n, s, q) ==
    LET result == Div(s, n)
        abs_diff == Sub(result, q)
    IN  [n |-> n, result |-> result, abs_diff |-> abs_diff]

\* The loop body with abs_diff = abs(result - 0.5).
Row3_default_p(n, s, q) ==
    LET result == Div(s, n)
        abs_diff == Abs(Sub(result, p_default))
    IN  [n |-> n, result |-> result, abs_diff |-> abs_diff]

\* The loop body: result, abs_diff and the appended row.
Row3(n, s, q) ==
    LET result == Div(s, n)
        abs_diff == Abs(Sub(result, q))
    IN  [n |-> n, result |-> result, abs_diff |-> abs_diff]

\* The list `rows` the loop builds over n_values nv when the draws are succ.
Rows3(nv, succ, q) == [i \in 1..Len(nv) |-> Row3(nv[i], succ[i], q)]

\* One run of the script with the widget values (q, big), the button value
\* pressed and the entropy e the OS hands to default_rng().
Script3(q, big, pressed, e) ==
    LET nv == NValues3(big) IN
    IF ~pressed
    THEN [n_values |-> nv, rng |-> NoRng, successes |-> <<>>, rows |-> <<>>,
          view |-> "info"]
    ELSE LET g == default_rng3(e)
             succ == [i \in 1..Len(nv) |-> Draw3(g, i, nv[i], q)]
         IN  [n_values |-> nv,
              rng |-> [seed |-> g.seed, pos |-> g.pos + Len(nv)],
              successes |-> succ,
              rows |-> Rows3(nv, succ, q),
              view |-> "results"]

(* ----------------------------- sessions -------------------------------- *)

\* The observer's note grows older by one interaction.
Age(o) ==
    IF o.between < 0 \/ o.between >= MaxBetween THEN o
    ELSE [o EXCEPT !.between = @ + 1]

\* The script run that follows an interaction leaving the widgets at
\* (q, s, big), with the button value pressed; e is the entropy the OS hands
\* out if the script asks for it.
Rerun(q, s, big, pressed, e) ==
    LET out == IF app = "seeded" THEN Script1(q, s, big, pressed)
               ELSE Script3(q, big, pressed, e)
    IN  /\ p' = q
        /\ seed' = s
        /\ include_big_n' = big
        /\ run' = pressed
        /\ n_values' = out.n_values
        /\ rng' = out.rng
        /\ successes' = out.successes
        /\ rows' = out.rows
        /\ view' = out.view
        /\ observed' = Age(observed)
        /\ UNCHANGED app

\* Nobody has observed a run.
NoObservation == [seed |-> -1, p |-> -1, big |-> FALSE, successes |-> <<>>,
                  between |-> -1]

\* The first load of the page: the widgets at their defaults, the button not
\* pressed.
Init ==
    /\ app \in {"seeded", "unseeded"}
    /\ p = p_default
    /\ seed = seed_default
    /\ include_big_n = FALSE
    /\ run = FALSE
    /\ n_values = (IF app = "seeded" THEN NValues1(FALSE) ELSE NValues3(FALSE))
    /\ rng = NoRng
    /\ successes = <<>>
    /\ rows = <<>>
    /\ view = "info"
    /\ observed = NoObservation

\* The user moves the slider.
SetP == \E q \in SliderStops \ {p} : Rerun(q, seed, include_big_n, FALSE, 0)

\* The user changes the seed field (law_large_numbers.py only).
SetSeed ==
    /\ app = "seeded"
    /\ \E s \in SeedChoices \ {seed} : Rerun(p, s, include_big_n, FALSE, 0)

\* The user ticks or unticks the checkbox.
ToggleBigN == Rerun(p, seed, ~include_big_n, FALSE, 0)

\* The user presses "Run simulation".
PressRun ==
    \E e \in (IF app = "unseeded" THEN 0..MaxEntropy ELSE {0}) :
        Rerun(p, seed, include_big_n, TRUE, e)

Next == SetP \/ SetSeed \/ ToggleBigN \/ PressRun

Spec == Init /\ [][Next]_vars

\* An observer notes down the run whose results are on the page.
Observe ==
    /\ app = "seeded"
    /\ view = "results"
    /\ observed' = [seed |-> seed, p |-> p, big |-> include_big_n,
                    successes |-> successes, between |-> 0]
    /\ UNCHANGED <<app, p, seed, include_big_n, run, n_values, rng, successes,
                   rows, view>>

NextObs == SetP \/ SetSeed \/ ToggleBigN \/ PressRun \/ Observe

\* The sessions with the observer.
SpecObs == Init /\ [][NextObs]_vars

(* ------------------------------ claims --------------------------------- *)

\* The larger of p and 1 - p, in hundredths.
MaxDeviation(q) == IF q >= Scale - q THEN q ELSE Scale - q

\* C1: every Trial Result on the page has 0 <= frequency <= 1 and
\* 0 <= absolute_deviation <= max(p, 1 - p), in both scripts.
C1_FrequencyAndDeviationInRange ==
    \A i \in DOMAIN rows :
        /\ 0 <= rows[i].result.num
        /\ rows[i].result.num <= rows[i].result.den
        /\ 0 <= rows[i].abs_diff.num
        /\ rows[i].abs_diff.num <= MaxDeviation(p) * (rows[i].abs_diff.den \div Scale)

\* C1's case: a run at p = 0.29 in which a draw gave n successes, so the
\* deviation of that row is exactly max(p, 1 - p) = 0.71.
C1_Witness ==
    /\ view = "results"
    /\ p = 29
    /\ \E i \in DOMAIN rows :
        /\ successes[i] = n_values[i]
        /\ rows[i].abs_diff.num = 71 * n_values[i]

\* C2: in law_large_numbers.py a run with the seed, the p and the flag of a
\* run observed earlier produces the successes sequence of that run, whatever
\* happened in between.
C2_SeededRunsRepeat ==
    (/\ app = "seeded"
     /\ view = "results"
     /\ observed.between >= 0
     /\ observed.seed = seed
     /\ observed.p = p
     /\ observed.big = include_big_n)
    => successes = observed.successes

\* C2's case: a second run with the inputs of the observed one, at least two
\* interactions after it, at a p where the draws depend on the variates.
C2_Witness ==
    /\ app = "seeded"
    /\ view = "results"
    /\ observed.between >= 2
    /\ observed.seed = seed
    /\ observed.p = p
    /\ observed.big = include_big_n
    /\ p = 29
    /\ Len(successes) = 5

\* C3: every run produces one Trial Result per configured sample size, in the
\* configured order: 10, 50, 100, 1000, then 10,000,000 iff the flag is set.
C3_OneRowPerSampleSize ==
    run =>
        /\ Len(rows) = (IF include_big_n THEN 5 ELSE 4)
        /\ \A i \in DOMAIN rows : rows[i].n = <<10, 50, 100, 1000, 10000000>>[i]

\* C3, for the runs whose generator was created.
C3_OneRowPerSampleSize_GeneratorCreated ==
    (run /\ view # "exception") =>
        /\ Len(rows) = (IF include_big_n THEN 5 ELSE 4)
        /\ \A i \in DOMAIN rows : rows[i].n = <<10, 50, 100, 1000, 10000000>>[i]

\* C4: at p = 0.0 every Trial Result has successes = 0, frequency 0 and
\* deviation 0; at p = 1.0 every Trial Result has successes = n, frequency 1
\* and deviation 0.
C4_DegenerateP ==
    /\ p = 0 =>
        \A i \in DOMAIN rows :
            /\ successes[i] = 0
            /\ rows[i].result.num = 0
            /\ rows[i].abs_diff.num = 0
    /\ p = Scale =>
        \A i \in DOMAIN rows :
            /\ successes[i] = n_values[i]
            /\ rows[i].result.num = rows[i].result.den
            /\ rows[i].abs_diff.num = 0

\* C4's case: a seeded run at p = 0.0 with the large sample size, under a seed
\* whose variates are not all at the lowest level.
C4_Witness ==
    /\ app = "seeded"
    /\ view = "results"
    /\ p = 0
    /\ seed = 42
    /\ Len(rows) = 5

\* C5: for every Trial Result, successes is in 0..n, the stored result is
\* successes / n for the row's own n, and the stored deviation is
\* |result - p| for the p the run was triggered with.
C5_RowIsSuccessesOverN ==
    \A i \in DOMAIN rows :
        /\ successes[i] \in 0..n_values[i]
        /\ rows[i].n = n_values[i]
        /\ rows[i].result.den = Scale * n_values[i]
        /\ rows[i].result.num = Scale * successes[i]
        /\ rows[i].abs_diff.den = Scale * n_values[i]
        /\ rows[i].abs_diff.num =
              (IF Scale * successes[i] >= p * n_values[i]
               THEN Scale * successes[i] - p * n_values[i]
               ELSE p * n_values[i] - Scale * successes[i])

\* C5's case: a run at a p other than the default in which a draw is neither
\* 0 nor n.
C5_Witness ==
    /\ view = "results"
    /\ p = 71
    /\ \E i \in DOMAIN rows : 0 < successes[i] /\ successes[i] < n_values[i]

\* C6: no run reaches an error state: nothing is raised, every sample size
\* that reaches the division is positive and every p that reaches the draw
\* is in [0, 1].
C6_NoErrorState ==
    /\ view # "exception"
    /\ \A i \in DOMAIN n_values : n_values[i] > 0
    /\ p \in p_min..p_max

\* C6, without the generator's creation: the sample sizes and p are in range.
C6_InputsInRange ==
    /\ \A i \in DOMAIN n_values : n_values[i] > 0
    /\ p \in p_min..p_max

\* C7: a simulation is performed in exactly the script runs of a Run press,
\* results are on the page in exactly those, and after any other interaction
\* nothing is held and the prompt is shown.
C7_SimulationPerPress ==
    /\ run <=> successes # <<>>
    /\ run <=> view = "results"
    /\ ~run => (rows = <<>> /\ view = "info")

\* C7, without the claim that every press performs a simulation.
C7_ResultsOnlyOnPress ==
    /\ successes # <<>> => run
    /\ view = "results" => run
    /\ ~run => (rows = <<>> /\ view = "info")

\* C8: for the same p, flag and drawn successes, the two scripts produce the
\* same rows: the rows on the page are the rows the other script builds from
\* these draws.
C8_SameRowsInBothScripts ==
    view = "results" =>
        rows = (IF app = "seeded"
                THEN Rows3(NValues3(include_big_n), successes, p)
                ELSE Rows1(NValues1(include_big_n), successes, p))

\* C8's case: a run of law_large_numbers3.py with the large sample size, at a
\* p other than the default, with a draw strictly inside 0..n.
C8_Witness ==
    /\ app = "unseeded"
    /\ view = "results"
    /\ include_big_n
    /\ p = 99
    /\ \E i \in DOMAIN rows : 0 < successes[i] /\ successes[i] < n_values[i]

\* C10: a run draws exactly once per configured sample size and changes
\* neither p, the seed, the flag nor the list of sample sizes.
C10_RunDrawsOncePerSizeAndFrame ==
    [][run' =>
        /\ rng'.pos = Len(n_values')
        /\ Len(successes') = Len(n_values')
        /\ p' = p
        /\ seed' = seed
        /\ include_big_n' = include_big_n
        /\ n_values' = n_values]_vars

\* C10, for the runs whose generator was created.
C10_RunDrawsOncePerSize_GeneratorCreated ==
    [][(run' /\ view' # "exception") =>
        /\ rng'.pos = Len(n_values')
        /\ Len(successes') = Len(n_values')
        /\ p' = p
        /\ seed' = seed
        /\ include_big_n' = include_big_n
        /\ n_values' = n_values]_vars

====
